---- MODULE Spec2Model ----
(***************************************************************************)
(* Model of new_hgt_model.py: the script main() runs load_data, preprocess, *)
(* encode_data, the tensor assembly and train_model one after the other.    *)
(* Strings are sequences of one-character strings; a table is a record of   *)
(* its column dtypes and its rows (functions from column name to cell).     *)
(***************************************************************************)
EXTENDS Integers, Sequences, FiniteSets, TLC

\* ------------------------------------------------------------------ bounds
MaxNodes == 2
MaxEdges == 2
MaxAttrRows == 3

\* epochs=10 in main's call of train_model
Epochs == 10

\* ------------------------------------------------------- strings and cells
\* The characters the model uses, in code point order (Python compares
\* strings by code point, which is the order np.unique sorts by).
Alphabet ==
  <<"\t", " ", ".", "0", "1", "2", "3", "4", "5", "6", "7", "8", "9",
    "a", "b", "e", "n", "s", "t", "w">>

CharOrd(c) == CHOOSE i \in 1..Len(Alphabet) : Alphabet[i] = c

IsSpace(c) == c \in {" ", "\t"}

Range(f) == {f[i] : i \in DOMAIN f}

MinOf(a, b) == IF a <= b THEN a ELSE b

\* s < t for Python strings
LexLess(s, t) ==
  \E i \in 1..(MinOf(Len(s), Len(t)) + 1) :
    /\ \A j \in 1..(i - 1) : s[j] = t[j]
    /\ \/ i > Len(s) /\ i <= Len(t)
       \/ i <= Len(s) /\ i <= Len(t) /\ CharOrd(s[i]) < CharOrd(t[i])

\* mutant of Strip: str.rstrip(), only trailing whitespace removed
RECURSIVE StripRight(_)
StripRight(s) ==
  IF s = <<>> THEN s
  ELSE IF IsSpace(s[Len(s)]) THEN StripRight(SubSeq(s, 1, Len(s) - 1))
  ELSE s

\* str.strip(): leading and trailing whitespace removed, inner kept
RECURSIVE Strip(_)
Strip(s) ==
  IF s = <<>> THEN s
  ELSE IF IsSpace(Head(s)) THEN Strip(Tail(s))
  ELSE IF IsSpace(s[Len(s)]) THEN Strip(SubSeq(s, 1, Len(s) - 1))
  ELSE s

DigitChars == <<"0", "1", "2", "3", "4", "5", "6", "7", "8", "9">>

\* decimal representation of a natural number
RECURSIVE Digits(_)
Digits(n) ==
  IF n < 10 THEN <<DigitChars[n + 1]>>
  ELSE Digits(n \div 10) \o <<DigitChars[(n % 10) + 1]>>

\* A cell of a DataFrame: a string, a missing value (NaN), a float with an
\* integral value, or an integer.
StrCell(s) == [kind |-> "str", s |-> s, n |-> 0]
NaN == [kind |-> "nan", s |-> <<>>, n |-> 0]
FloatCell(n) == [kind |-> "float", s |-> <<>>, n |-> n]
IntCell(n) == [kind |-> "int", s |-> <<>>, n |-> n]

\* str(value), what astype(str) does to one cell
AsStr(c) ==
  CASE c.kind = "str" -> c.s
    [] c.kind = "nan" -> <<"n", "a", "n">>
    [] c.kind = "float" -> Digits(c.n) \o <<".", "0">>
    [] c.kind = "int" -> Digits(c.n)

\* ------------------------------------------------------------------ tables
Cols(t) == DOMAIN t.dtype

\* the values of one column, in row order
Column(t, c) == [i \in 1..Len(t.rows) |-> t.rows[i][c]]

\* df[c] = f(df[c]) with a new dtype
SetColumn(t, c, dt, vals) ==
  [dtype |-> (c :> dt) @@ t.dtype,
   rows |-> [i \in 1..Len(t.rows) |-> (c :> vals[i]) @@ t.rows[i]]]

\* df[c].astype(str).str.strip()
NormalizeId(t, c) ==
  SetColumn(t, c, "object",
            [i \in 1..Len(t.rows) |-> StrCell(Strip(AsStr(t.rows[i][c])))])

\* df.astype(str): every column becomes a string column
AsTypeStr(t) ==
  [dtype |-> [c \in Cols(t) |-> "object"],
   rows |-> [i \in 1..Len(t.rows) |->
               [c \in Cols(t) |-> StrCell(AsStr(t.rows[i][c]))]]]

\* ------------------------------------------------------------ LabelEncoder
\* sorted(S) for a set of strings
RECURSIVE SortSet(_)
SortSet(S) ==
  IF S = {} THEN <<>>
  ELSE LET m == CHOOSE x \in S : \A z \in S \ {x} : LexLess(x, z)
       IN <<m>> \o SortSet(S \ {m})

\* the strings of a column of string cells
Values(col) == {col[i].s : i \in DOMAIN col}

\* LabelEncoder.fit: classes_ is the sorted array of the distinct values
Fit(col) == SortSet(Values(col))

\* the values transform would reject as previously unseen labels
Unseen(classes, col) == Values(col) \ Range(classes)

\* mutant of CodeOf: positions counted from 1
CodeOfFromOne(classes, v) == CHOOSE i \in 1..Len(classes) : classes[i] = v

\* the integer code of a value: its position in classes_, from 0
CodeOf(classes, v) == (CHOOSE i \in 1..Len(classes) : classes[i] = v) - 1

\* LabelEncoder.transform on a column whose values are all in classes_
Transform(classes, col) ==
  [i \in DOMAIN col |-> IntCell(CodeOf(classes, col[i].s))]

\* --------------------------------------------------------------- load_data
\* mutant of ValidEdge: | in place of &
ValidEdgeEither(row, node_ids) ==
  row["source_id"].s \in node_ids \/ row["target_id"].s \in node_ids

\* mutant of ValidEdge: the target is not tested
ValidEdgeSourceOnly(row, node_ids) == row["source_id"].s \in node_ids

\* the mask of line 38: both endpoints are node identifiers
ValidEdge(row, node_ids) ==
  row["source_id"].s \in node_ids /\ row["target_id"].s \in node_ids

RECURSIVE FilterRows(_, _)
FilterRows(rows, node_ids) ==
  IF rows = <<>> THEN <<>>
  ELSE IF ValidEdge(Head(rows), node_ids)
       THEN <<Head(rows)>> \o FilterRows(Tail(rows), node_ids)
       ELSE FilterRows(Tail(rows), node_ids)

\* load_data after the two read_csv calls: the returned tables and what the
\* "Skipping ... edges" line printed (nothing when no edge was dropped)
LoadDataOf(files) ==
  LET ns == NormalizeId(files.nodes, "user_id")
      es == NormalizeId(NormalizeId(files.edges, "source_id"), "target_id")
      node_ids == Values(Column(ns, "user_id"))
      valid == [dtype |-> es.dtype, rows |-> FilterRows(es.rows, node_ids)]
  IN [nodes |-> ns,
      edges |-> valid,
      skipped |-> IF Len(valid.rows) # Len(es.rows)
                  THEN <<Len(es.rows) - Len(valid.rows)>>
                  ELSE <<>>]

\* ------------------------------------------------------------- encode_data
\* the node columns the loop of lines 73-77 encodes
NodeEncCols(t) == {c \in Cols(t) : c # "user_id" /\ t.dtype[c] = "object"}

\* the edge columns the loop of lines 79-83 encodes
EdgeEncCols(t) ==
  {c \in Cols(t) :
     /\ c \notin {"source_id", "target_id", "source_idx", "target_idx"}
     /\ t.dtype[c] = "object"}

\* mutant of EncodeCols: one encoder fitted on the values of all the columns
EncodeColsShared(t, cs) ==
  [dtype |-> [c \in Cols(t) |-> IF c \in cs THEN "int64" ELSE t.dtype[c]],
   rows |-> [i \in 1..Len(t.rows) |->
               [c \in Cols(t) |->
                  IF c \in cs
                  THEN IntCell(CodeOf(SortSet(UNION {Values(Column(t, d)) : d \in cs}),
                                      t.rows[i][c].s))
                  ELSE t.rows[i][c]]]]

\* df[c] = LabelEncoder().fit_transform(df[c]) for every c of cs
EncodeCols(t, cs) ==
  [dtype |-> [c \in Cols(t) |-> IF c \in cs THEN "int64" ELSE t.dtype[c]],
   rows |-> [i \in 1..Len(t.rows) |->
               [c \in Cols(t) |->
                  IF c \in cs
                  THEN IntCell(CodeOf(Fit(Column(t, c)), t.rows[i][c].s))
                  ELSE t.rows[i][c]]]]

\* the dictionary encode_data returns: the node loop stores encoders[col],
\* then the edge loop stores encoders[col] under the same keys
Encoders(ns, es) ==
  [c \in EdgeEncCols(es) |-> Fit(Column(es, c))]
    @@ [c \in NodeEncCols(ns) |-> Fit(Column(ns, c))]

\* encode_data(nodes, edges). raised is TRUE when the transform of line 68 or
\* of line 69 raises ValueError (a previously unseen label); the tables are
\* then left as the assignments before the raise made them (the DataFrames
\* are modified in place).
EncodeDataOf(ns, es) ==
  LET classes == Fit(Column(ns, "user_id"))
      ns1 == SetColumn(ns, "user_idx", "int64",
                       Transform(classes, Column(ns, "user_id")))
      bad_src == Unseen(classes, Column(es, "source_id"))
      bad_tgt == Unseen(classes, Column(es, "target_id"))
      es1 == SetColumn(es, "source_idx", "int64",
                       Transform(classes, Column(es, "source_id")))
      es2 == SetColumn(es1, "target_idx", "int64",
                       Transform(classes, Column(es1, "target_id")))
      common ==
        [diag_src |-> Values(Column(es, "source_id")) \ Values(Column(ns, "user_id")),
         diag_tgt |-> Values(Column(es, "target_id")) \ Values(Column(ns, "user_id")),
         classes |-> classes]
  IN IF bad_src # {}
     THEN common @@ [raised |-> TRUE, nodes |-> ns1, edges |-> es,
                     encoders |-> <<>>]
     ELSE IF bad_tgt # {}
     THEN common @@ [raised |-> TRUE, nodes |-> ns1, edges |-> es1,
                     encoders |-> <<>>]
     ELSE common @@ [raised |-> FALSE,
                     nodes |-> EncodeCols(ns1, NodeEncCols(ns1)),
                     edges |-> EncodeCols(es2, EdgeEncCols(es2)),
                     encoders |-> Encoders(ns1, es2)]

\* ------------------------------------------------------------------- state
VARIABLES
  csv,              \* the two files: [nodes, edges], as read_csv returns them
  pc,               \* where main is
  nodes,            \* main's nodes
  edges,            \* main's edges
  skipped,          \* the counts printed by "Skipping ... edges"
  diag,             \* the two sets encode_data printed, once printed
  user_id_encoder,  \* classes_ of encode_data's user_id_encoder, once fitted
  encoders,         \* main's encoders, once assigned
  node_features,    \* main's node_features, once built
  edge_index,       \* main's edge_index, once built
  y,                \* main's y, once built
  epoch,            \* optimizer steps taken by train_model
  err               \* how the run failed, "none" while it has not

vars ==
  <<csv, pc, nodes, edges, skipped, diag, user_id_encoder, encoders,
    node_features, edge_index, y, epoch, err>>

\* an unassigned local is <<>>, an assigned one <<value>>
EmptyTable == [dtype |-> <<>>, rows |-> <<>>]

\* ----------------------------------------------------------------- inputs
RawIds == {<<"a">>, <<" ", "a", "\t">>, <<"b", " ", "a">>}

CanonIds == <<<<"a">>, <<"b", " ", "a">>, <<" ", "a", "\t">>>>

CanonId(i) == CanonIds[((i - 1) % Len(CanonIds)) + 1]

RiskCells == {NaN, FloatCell(10)}

KindCells == {StrCell(<<"e", "a", "s", "t">>), StrCell(<<"w", "e", "s", "t">>)}

DtypeOf(c) == IF c = "reported_risk" THEN "float64" ELSE "object"

\* a node file with the columns cs
NodeTable(n, id, risk, kind, cs) ==
  [dtype |-> [c \in cs |-> DtypeOf(c)],
   rows |-> [i \in 1..n |->
               [c \in cs |->
                  CASE c = "user_id" -> StrCell(id[i])
                    [] c = "reported_risk" -> risk[i]
                    [] OTHER -> kind[i]]]]

\* an edge file with the columns cs
EdgeTable(m, src, tgt, kind, cs) ==
  [dtype |-> [c \in cs |-> DtypeOf(c)],
   rows |-> [i \in 1..m |->
               [c \in cs |->
                  CASE c = "source_id" -> StrCell(src[i])
                    [] c = "target_id" -> StrCell(tgt[i])
                    [] OTHER -> kind[i]]]]

NodeSchemas ==
  {{"user_id"} \cup extra : extra \in SUBSET {"reported_risk", "kind"}}

EdgeSchemas == {{"source_id", "target_id"} \cup extra : extra \in SUBSET {"kind"}}

\* files that differ in their identifiers: any identifiers, a target column
\* without missing values, no other column
IdFiles(files) ==
  \E n \in 1..MaxNodes, m \in 0..MaxEdges :
    \E ids \in [1..n -> RawIds], src \in [1..m -> RawIds], tgt \in [1..m -> RawIds] :
      files =
        [nodes |-> NodeTable(n, ids, [i \in 1..n |-> FloatCell(i)], <<>>,
                             {"user_id", "reported_risk"}),
         edges |-> EdgeTable(m, src, tgt, <<>>, {"source_id", "target_id"})]

\* files that differ in their columns and attribute values: fixed identifiers,
\* any schema, any target values, any values of the column kind
AttrFiles(files) ==
  \E n \in 1..MaxAttrRows, m \in 0..MaxEdges :
    \E ncols \in NodeSchemas, ecols \in EdgeSchemas :
      \E risk \in [1..n -> RiskCells], nkind \in [1..n -> KindCells],
         ekind \in [1..m -> KindCells] :
        files =
          [nodes |-> NodeTable(n, [i \in 1..n |-> CanonId(i)], risk, nkind, ncols),
           edges |-> EdgeTable(m, [i \in 1..m |-> CanonId(1)],
                               [i \in 1..m |-> CanonId(i)], ekind, ecols)]

Start ==
  /\ nodes = EmptyTable
  /\ edges = EmptyTable
  /\ skipped = <<>>
  /\ diag = <<>>
  /\ user_id_encoder = <<>>
  /\ encoders = <<>>
  /\ node_features = <<>>
  /\ edge_index = <<>>
  /\ y = <<>>
  /\ epoch = 0
  /\ err = "none"

Init ==
  /\ IdFiles(csv) \/ AttrFiles(csv)
  /\ pc = "load_data"
  /\ Start

\* ----------------------------------------------------------------- actions
\* main, line 124: nodes, edges = load_data(node_path, edge_path)
LoadData ==
  /\ pc = "load_data"
  /\ LET r == LoadDataOf(csv)
     IN /\ nodes' = r.nodes
        /\ edges' = r.edges
        /\ skipped' = r.skipped
  /\ pc' = "preprocess"
  /\ UNCHANGED <<csv, diag, user_id_encoder, encoders, node_features,
                 edge_index, y, epoch, err>>

\* main, line 125: nodes, edges = preprocess(nodes, edges)
Preprocess ==
  /\ pc = "preprocess"
  /\ nodes' = AsTypeStr(nodes)
  /\ edges' = AsTypeStr(edges)
  /\ pc' = "encode_data"
  /\ UNCHANGED <<csv, skipped, diag, user_id_encoder, encoders, node_features,
                 edge_index, y, epoch, err>>

\* mutant of AfterExcept: the return of line 131 left out
AfterExceptFallsThrough == "assemble"

\* where main is after its except branch: it has returned
AfterExcept == "returned"

\* main, lines 127-131: encode_data inside try, ValueError caught, printed
\* and answered with return
EncodeData ==
  /\ pc = "encode_data"
  /\ LET r == EncodeDataOf(nodes, edges)
     IN /\ diag' = <<[src |-> r.diag_src, tgt |-> r.diag_tgt]>>
        /\ user_id_encoder' = <<r.classes>>
        /\ nodes' = r.nodes
        /\ edges' = r.edges
        /\ IF r.raised
           THEN /\ err' = "encoding"
                /\ pc' = AfterExcept
                /\ UNCHANGED encoders
           ELSE /\ encoders' = <<r.encoders>>
                /\ pc' = "assemble"
                /\ UNCHANGED err
  /\ UNCHANGED <<csv, skipped, node_features, edge_index, y, epoch>>

\* the feature columns of line 134
FeatureCols(t) == Cols(t) \ {"user_id", "user_idx"}

\* main, lines 134-148: node_features, edge_index, then y; nodes['reported_risk']
\* raises KeyError, which nothing catches, when the column does not exist
Assemble ==
  /\ pc = "assemble"
  /\ node_features' =
       <<[i \in 1..Len(nodes.rows) |->
            [c \in FeatureCols(nodes) |-> nodes.rows[i][c].n]]>>
  /\ edge_index' =
       <<[src |-> [i \in 1..Len(edges.rows) |-> edges.rows[i]["source_idx"].n],
          tgt |-> [i \in 1..Len(edges.rows) |-> edges.rows[i]["target_idx"].n]]>>
  /\ IF "reported_risk" \in Cols(nodes)
     THEN /\ y' = <<[i \in 1..Len(nodes.rows) |-> nodes.rows[i]["reported_risk"].n]>>
          /\ pc' = "train_model"
          /\ UNCHANGED err
     ELSE /\ err' = "KeyError"
          /\ pc' = "crashed"
          /\ UNCHANGED y
  /\ UNCHANGED <<csv, nodes, edges, skipped, diag, user_id_encoder, encoders,
                 epoch>>

\* main, lines 150-155 and train_model, lines 101-106: the model and the
\* optimizer are built, then data.y is tested for None
TrainModel ==
  /\ pc = "train_model"
  /\ IF y = <<>>
     THEN /\ err' = "missing_target"
          /\ pc' = "crashed"
     ELSE /\ pc' = "epoch"
          /\ UNCHANGED err
  /\ UNCHANGED <<csv, nodes, edges, skipped, diag, user_id_encoder, encoders,
                 node_features, edge_index, y, epoch>>

\* train_model, lines 108-114: one epoch, one optimizer step
Epoch ==
  /\ pc = "epoch"
  /\ epoch < Epochs
  /\ epoch' = epoch + 1
  /\ UNCHANGED <<csv, pc, nodes, edges, skipped, diag, user_id_encoder,
                 encoders, node_features, edge_index, y, err>>

\* train_model returns after the last epoch; main, lines 157-159
Embeddings ==
  /\ pc = "epoch"
  /\ epoch = Epochs
  /\ pc' = "done"
  /\ UNCHANGED <<csv, nodes, edges, skipped, diag, user_id_encoder, encoders,
                 node_features, edge_index, y, epoch, err>>

Next ==
  \/ LoadData
  \/ Preprocess
  \/ EncodeData
  \/ Assemble
  \/ TrainModel
  \/ Epoch
  \/ Embeddings

Spec == Init /\ [][Next]_vars

\* encode_data as main's try block calls it, on string tables whose edges
\* did not pass the filter of load_data: main entered at line 127 with the
\* normalized, unfiltered tables of the files. main itself never gets there
\* with such tables (see NoEncodingFailure); this specification is the one
\* under which the except branch of lines 129-131 runs.
InitEncode ==
  /\ IdFiles(csv)
  /\ pc = "encode_data"
  /\ nodes = AsTypeStr(NormalizeId(csv.nodes, "user_id"))
  /\ edges = AsTypeStr(NormalizeId(NormalizeId(csv.edges, "source_id"), "target_id"))
  /\ skipped = <<>>
  /\ diag = <<>>
  /\ user_id_encoder = <<>>
  /\ encoders = <<>>
  /\ node_features = <<>>
  /\ edge_index = <<>>
  /\ y = <<>>
  /\ epoch = 0
  /\ err = "none"

NextEncode ==
  \/ EncodeData
  \/ Assemble
  \/ TrainModel
  \/ Epoch
  \/ Embeddings

SpecEncode == InitEncode /\ [][NextEncode]_vars

\* ------------------------------------------------------------- properties
\* the raw cells of the files
RawEdges == csv.edges.rows

RawNodes == csv.nodes.rows

\* load_data has just returned
Loaded == pc = "preprocess"

\* encode_data has just returned its three results to main
Encoded == pc = "assemble"

\* the run has ended, one way or another
Ended == pc \in {"done", "returned", "crashed"}

\* the identifiers of the node table, as the state holds them
NodeIds == {nodes.rows[i]["user_id"].s : i \in 1..Len(nodes.rows)}

\* the number of elements of S that are at most i
Rank(S, i) == Cardinality({k \in S : k <= i})

\* the raw edges both of whose normalized endpoints are node identifiers
ValidRaw ==
  {i \in 1..Len(RawEdges) :
     /\ Strip(AsStr(RawEdges[i]["source_id"])) \in NodeIds
     /\ Strip(AsStr(RawEdges[i]["target_id"])) \in NodeIds}

\* C1: the edge table load_data returns holds exactly the edges whose two
\* normalized endpoints are node identifiers, in file order, and the count
\* it reports is len(original edges) - len(filtered edges), reported exactly
\* when it is not zero.
FilteredEdgesExact ==
  Loaded =>
    /\ LET valid == ValidRaw
       IN /\ Len(edges.rows) = Cardinality(valid)
          /\ \A i \in valid :
               /\ edges.rows[Rank(valid, i)]["source_id"].s
                    = Strip(AsStr(RawEdges[i]["source_id"]))
               /\ edges.rows[Rank(valid, i)]["target_id"].s
                    = Strip(AsStr(RawEdges[i]["target_id"]))
    /\ \A j \in 1..Len(edges.rows) :
         /\ edges.rows[j]["source_id"].s \in NodeIds
         /\ edges.rows[j]["target_id"].s \in NodeIds
    /\ skipped = IF Len(RawEdges) # Len(edges.rows)
                 THEN <<Len(RawEdges) - Len(edges.rows)>>
                 ELSE <<>>

\* load_data returned after dropping an edge and keeping another
FilteredEdgesWitness ==
  /\ Loaded
  /\ skipped = <<1>>
  /\ Len(edges.rows) = 1

\* the user_idx column of the encoded node table
UserIdx == [i \in 1..Len(nodes.rows) |-> nodes.rows[i]["user_idx"].n]

\* C2, as stated: user_idx takes exactly the values 0..num_nodes-1 and no two
\* node rows share one.
IndexBijectiveOnRows ==
  Encoded =>
    /\ Range(UserIdx) = 0..(Len(nodes.rows) - 1)
    /\ \A i, j \in 1..Len(nodes.rows) : i # j => UserIdx[i] # UserIdx[j]

\* C2, amended: user_idx takes exactly the values 0..k-1, k the number of
\* distinct node identifiers, and two node rows share a value exactly when
\* they have the same identifier.
IndexBijectiveOnIds ==
  Encoded =>
    /\ Range(UserIdx) = 0..(Cardinality(NodeIds) - 1)
    /\ \A i, j \in 1..Len(nodes.rows) :
         (UserIdx[i] = UserIdx[j])
           <=> (nodes.rows[i]["user_id"].s = nodes.rows[j]["user_id"].s)

\* an encoded node table with two distinct identifiers, one of them on two
\* rows
IndexBijectiveWitness ==
  /\ Encoded
  /\ Cardinality(NodeIds) >= 2
  /\ Len(nodes.rows) > Cardinality(NodeIds)

\* C3: the integer a node has in source_idx/target_idx is the position of
\* its row in the feature matrix.
IndexIsRowPosition ==
  node_features # <<>> =>
    \A i \in 1..Len(nodes.rows) : UserIdx[i] = i - 1

\* C4: in main's order no edge lookup fails: the filtered edges hold only
\* identifiers of the index, the index holds the node identifiers and nothing
\* else after the lookups, and both printed difference sets are empty.
NoEncodingFailure ==
  /\ err # "encoding"
  /\ pc # "returned"
  /\ pc = "encode_data" =>
       \A j \in 1..Len(edges.rows) :
         /\ edges.rows[j]["source_id"].s \in NodeIds
         /\ edges.rows[j]["target_id"].s \in NodeIds
  /\ diag # <<>> => diag[1].src = {} /\ diag[1].tgt = {}
  /\ user_id_encoder # <<>> => encoders # <<>>
  /\ Encoded =>
       /\ Range(user_id_encoder[1]) = NodeIds
       /\ \A j \in 1..Len(edges.rows) :
            /\ user_id_encoder[1][edges.rows[j]["source_idx"].n + 1]
                 = edges.rows[j]["source_id"].s
            /\ user_id_encoder[1][edges.rows[j]["target_idx"].n + 1]
                 = edges.rows[j]["target_id"].s

\* encode_data returned after looking up the endpoints of an edge that
\* survived a filter which dropped another
NoEncodingFailureWitness ==
  /\ pc = "assemble"
  /\ skipped # <<>>
  /\ Len(edges.rows) >= 1

\* the target column is absent from the node file, or holds only nulls
TargetMissing ==
  \/ "reported_risk" \notin Cols(csv.nodes)
  \/ \A i \in 1..Len(RawNodes) : RawNodes[i]["reported_risk"].kind = "nan"

\* the target column is there and holds only nulls
TargetEmpty ==
  /\ "reported_risk" \in Cols(csv.nodes)
  /\ \A i \in 1..Len(RawNodes) : RawNodes[i]["reported_risk"].kind = "nan"

\* C5: a run whose target column is absent or all null takes no training
\* step and ends aborted by an error; every other run completes. (The
\* KeyError of line 142 is taken for an abort with a missing-target error.)
MissingTargetAborts ==
  /\ TargetMissing => epoch = 0
  /\ Ended =>
       IF TargetMissing
       THEN pc = "crashed" /\ err \in {"missing_target", "KeyError"}
       ELSE pc = "done"

\* C6: a run whose target column is empty aborts, and no tensor has been
\* built when it does.
EmptyTargetNoTensors ==
  (TargetEmpty /\ Ended) =>
    /\ pc = "crashed"
    /\ node_features = <<>>
    /\ edge_index = <<>>
    /\ y = <<>>

\* an edge endpoint that the fitted identifier index does not hold
UnseenEdgeId ==
  /\ user_id_encoder # <<>>
  /\ \E j \in 1..Len(edges.rows) :
       \/ edges.rows[j]["source_id"].s \notin Range(user_id_encoder[1])
       \/ edges.rows[j]["target_id"].s \notin Range(user_id_encoder[1])

\* C7: when a lookup of encode_data fails on an unseen identifier, main has
\* caught it and returned: the run is not crashed, encode_data is not run
\* again, no tensor is built and no training step is taken.
EncodingFailureCaught ==
  UnseenEdgeId =>
    /\ pc = "returned"
    /\ err = "encoding"
    /\ encoders = <<>>
    /\ node_features = <<>>
    /\ edge_index = <<>>
    /\ y = <<>>
    /\ epoch = 0
    /\ ~ ENABLED NextEncode

\* main returned from its except branch
EncodingFailureWitness ==
  /\ UnseenEdgeId
  /\ pc = "returned"
  /\ err = "encoding"

\* s and t differ only by leading or trailing whitespace: both are a common
\* middle part with whitespace around it
AllSpace(s) == \A i \in 1..Len(s) : IsSpace(s[i])

WsEqual(s, t) ==
  \E i1 \in 1..(Len(s) + 1), j1 \in 0..Len(s) :
    /\ AllSpace(SubSeq(s, 1, i1 - 1)) /\ AllSpace(SubSeq(s, j1 + 1, Len(s)))
    /\ \E i2 \in 1..(Len(t) + 1), j2 \in 0..Len(t) :
         /\ AllSpace(SubSeq(t, 1, i2 - 1)) /\ AllSpace(SubSeq(t, j2 + 1, Len(t)))
         /\ SubSeq(s, i1, j1) = SubSeq(t, i2, j2)

\* the raw edges both of whose endpoints match a raw node identifier up to
\* surrounding whitespace
MatchedRaw ==
  {i \in 1..Len(RawEdges) :
     /\ \E a \in 1..Len(RawNodes) :
          WsEqual(RawEdges[i]["source_id"].s, RawNodes[a]["user_id"].s)
     /\ \E b \in 1..Len(RawNodes) :
          WsEqual(RawEdges[i]["target_id"].s, RawNodes[b]["user_id"].s)}

\* C8: an edge endpoint that differs from a node identifier only by leading
\* or trailing whitespace counts as that node: the edges load_data keeps are
\* those whose two endpoints match a node identifier in this way.
WhitespaceInsensitiveIds ==
  Loaded =>
    LET matched == MatchedRaw
    IN /\ Len(edges.rows) = Cardinality(matched)
       /\ \A i \in matched :
            /\ WsEqual(edges.rows[Rank(matched, i)]["source_id"].s,
                       RawEdges[i]["source_id"].s)
            /\ WsEqual(edges.rows[Rank(matched, i)]["target_id"].s,
                       RawEdges[i]["target_id"].s)

\* load_data kept an edge whose source is written differently from every
\* node identifier of the file
WhitespaceWitness ==
  /\ Loaded
  /\ \E i \in MatchedRaw :
       \A a \in 1..Len(RawNodes) :
         RawEdges[i]["source_id"].s # RawNodes[a]["user_id"].s
  /\ Len(edges.rows) >= 1

\* the string tables encode_data was given
PreNodes == AsTypeStr(LoadDataOf(csv).nodes)

PreEdges == AsTypeStr(LoadDataOf(csv).edges)

\* the attribute columns of the two tables
NodeAttrs == Cols(csv.nodes) \ {"user_id"}

EdgeAttrs == Cols(csv.edges) \ {"source_id", "target_id"}

\* the mapping m decodes the encoded column c of table t to the strings pre
Decodes(m, t, pre, c) ==
  \A i \in 1..Len(t.rows) :
    /\ t.rows[i][c].n + 1 \in 1..Len(m)
    /\ m[t.rows[i][c].n + 1] = pre.rows[i][c].s

\* C9: what encode_data returns holds the identifier index and, for every
\* encoded node column and every encoded edge column, the mapping that
\* decodes it.
ReturnsAllMappings ==
  Encoded =>
    /\ \E k \in DOMAIN encoders[1] : encoders[1][k] = user_id_encoder[1]
    /\ \A c \in NodeAttrs :
         c \in DOMAIN encoders[1] /\ Decodes(encoders[1][c], nodes, PreNodes, c)
    /\ \A c \in EdgeAttrs :
         c \in DOMAIN encoders[1] /\ Decodes(encoders[1][c], edges, PreEdges, c)

\* the codes of column c of the encoded table t are a bijection between the
\* distinct strings of the column and 0..k-1
ColumnBijection(t, pre, c) ==
  /\ t.dtype[c] = "int64"
  /\ {t.rows[i][c].n : i \in 1..Len(t.rows)}
       = 0..(Cardinality({pre.rows[i][c].s : i \in 1..Len(pre.rows)}) - 1)
  /\ \A i, j \in 1..Len(t.rows) :
       (t.rows[i][c].n = t.rows[j][c].n) <=> (pre.rows[i][c].s = pre.rows[j][c].s)

\* C10: every attribute column is encoded by a bijection between its own
\* distinct strings and 0..k-1: equal values get equal codes, different
\* values different codes.
ColumnLocalBijection ==
  Encoded =>
    /\ Len(nodes.rows) = Len(PreNodes.rows)
    /\ Len(edges.rows) = Len(PreEdges.rows)
    /\ \A c \in NodeAttrs : ColumnBijection(nodes, PreNodes, c)
    /\ \A c \in EdgeAttrs : ColumnBijection(edges, PreEdges, c)

\* the column kind of the node file reads east, west, east and is encoded
ColumnLocalWitness ==
  /\ Encoded
  /\ "kind" \in NodeAttrs
  /\ Len(RawNodes) = 3
  /\ RawNodes[1]["kind"] = RawNodes[3]["kind"]
  /\ RawNodes[1]["kind"] # RawNodes[2]["kind"]
  /\ nodes.rows[1]["kind"].n = nodes.rows[3]["kind"].n
  /\ nodes.rows[1]["kind"].n # nodes.rows[2]["kind"].n

====
